---- MODULE Spec2Model ----
(***************************************************************************)
(* InputMonitor of dailytimespend.py (escalating alerts, periodic log) and *)
(* dailytimespend1.py (immediate stop).  Two threads share one monitor:    *)
(* the hook thread, which runs handle_keyboard / handle_mouse_click /      *)
(* handle_mouse_movement once per input event, and the daemon thread that  *)
(* runs draw_progress_bar.  Time is counted in ticks of 100 ms.  The hook   *)
(* manager is pyxhook's: it calls one handler at a time, may still hand    *)
(* over events after cancel(), and an exception that leaves a handler ends *)
(* its thread.                                                             *)
(***************************************************************************)
EXTENDS Integers, FiniteSets, Sequences, TLC

\* ---------------------------------------------------------------- constants

\* ticks in one second: timedelta.total_seconds() of one tick is 0.1
TicksPerSecond == 10
\* handle_mouse_movement: (current_time - last_activity).total_seconds() > 0.1
MoveDebounce == 1
\* handle_keyboard: time_diff.total_seconds() <= 1.0
ActiveWindow == 10
\* self.max_alerts = 5
max_alerts == 5
\* self.log_interval = timedelta(seconds=2)
log_interval == 20
\* bar_length = 40
bar_length == 40
\* self.last_activity = None
None == -1

\* ------------------------------------------------------------------- bounds

\* the clock advances tick by tick up to MaxTime ticks
MaxTime == 11
\* and, where the hook thread is followed alone, after that by MaxIdlePeriods steps
\* of log_interval
MaxIdlePeriods == 2
\* the time limit given on the command line is one of 0 .. MaxSeconds whole seconds
MaxSeconds == 1
\* where parse_time_limit is followed alone, args.time has at most MaxLen characters
MaxLen == 4
\* no event is delivered after this many calls of hook_manager.cancel()
MaxCancels == 2

Variants == {"escalating", "immediate"}
LogLabels == {"Session Started", "Time Limit Alert", "Session Ended",
              "Regular Update", "Active time"}

VARIABLES
    time_str,           \* main: args.time, a sequence of characters
    pc_main,            \* main: "parse" before parse_time_limit, "run" once the
                        \* monitor is constructed and started, "exit_1" after
                        \* `except ValueError`
    variant,            \* which of the two source files runs
    time_limit,         \* self.time_limit; None until it is parsed
    now,                \* the clock read by datetime.now()
    last_activity,      \* self.last_activity
    is_active,          \* self.is_active
    total_active_time,  \* self.total_active_time
    running,            \* self.running
    alert_count,        \* self.alert_count
    last_log_time,      \* self.last_log_time
    activity_lock,      \* self.activity_lock: "free" or the thread holding it
    pc_hook,            \* where the hook thread is in its handler; "dead" once an
                        \* exception has left a handler, which nothing catches
    event,              \* the event the hook thread is delivering, "none" once
                        \* handle_keyboard runs (it never reads its argument)
    raised,             \* an exception is propagating out of the with block
    pc_draw,            \* where draw_progress_bar is
    remaining_time,     \* draw_progress_bar: remaining_time
    filled_length,      \* draw_progress_bar: filled_length
    elapsed,            \* draw_progress_bar: the total_active_time read for elapsed,
                        \* as handed to format_timedelta
    activity_indicator, \* draw_progress_bar: is_active as read for the marker
    alert_info,         \* draw_progress_bar: alert_count as read for the line
    alerts_played,      \* calls of play_alert so far
    logged,             \* records written to the log file, per label
    cancels,            \* calls of hook_manager.cancel() so far
    last_accepted,      \* history: the time of the last accepted event
    gap_sum             \* history: sum of the gaps <= 1 s between accepted events

main == <<time_str, pc_main>>
session == <<last_activity, is_active, total_active_time, running, alert_count,
             last_log_time>>
hook == <<activity_lock, pc_hook, event, raised>>
draw == <<pc_draw, remaining_time, filled_length, elapsed, activity_indicator,
          alert_info>>
effects == <<alerts_played, logged, cancels>>
history == <<last_accepted, gap_sum>>
vars == <<main, variant, time_limit, now, session, hook, draw, effects, history>>

\* ------------------------------------------------------------ pure functions

\* the decimal digits, which \d matches and int() reads
DigitChars == <<"0", "1", "2", "3", "4", "5", "6", "7", "8", "9">>
IsDigit(c) == \E d \in 1..Len(DigitChars) : DigitChars[d] = c
DigitValue(c) == (CHOOSE d \in 1..Len(DigitChars) : DigitChars[d] = c) - 1

\* the characters of which the command-line argument is made up, where
\* parse_time_limit is followed alone
ArgChars == {"0", "1", "h", "m", "s", "x"}

\* the argument that asks for a limit of s seconds, s a single digit
TimeArg(s) == IF s = 0 THEN <<>> ELSE <<DigitChars[s + 1], "s">>

\* int() of a string of digits
RECURSIVE IntOf(_)
IntOf(digits) ==
    IF digits = <<>> THEN 0
    ELSE 10 * IntOf(SubSeq(digits, 1, Len(digits) - 1))
           + DigitValue(digits[Len(digits)])

\* \d+ at position pos: the number of digits it takes (it is greedy, and what
\* follows it in the pattern is no digit, so it never gives one back)
RECURSIVE DigitRun(_, _)
DigitRun(str, pos) ==
    IF pos <= Len(str) /\ IsDigit(str[pos]) THEN 1 + DigitRun(str, pos + 1) ELSE 0

\* (\d+)<unit> tried at position pos: whether it matches, int(group or 0), and
\* where the match continues
Component(str, pos, unit) ==
    LET n == DigitRun(str, pos)
    IN  IF n > 0 /\ pos + n <= Len(str) /\ str[pos + n] = unit
          THEN [found |-> TRUE, value |-> IntOf(SubSeq(str, pos, pos + n - 1)),
                next |-> pos + n + 1]
          ELSE [found |-> FALSE, value |-> 0, next |-> pos]

\* OptionalGroup for a group without its ?
RequiredGroup(found) == found

\* (?: ... )? lets the match go on whether or not the group has matched
OptionalGroup(found) == TRUE

\* parse_time_limit: re.match of the three groups from the start of time_str,
\* ValueError when there is no match, else the timedelta in seconds
parse_time_limit(str) ==
    LET h == Component(str, 1, "h")
        m == Component(str, h.next, "m")
        s == Component(str, m.next, "s")
        match == /\ OptionalGroup(h.found)
                 /\ OptionalGroup(m.found)
                 /\ OptionalGroup(s.found)
    IN  [ValueError |-> ~match,
         seconds |-> IF match THEN 3600 * h.value + 60 * m.value + s.value ELSE 0]

\* format_timedelta: int(td.total_seconds()) split into hours, minutes, seconds
format_timedelta(td) ==
    LET total_seconds == td \div TicksPerSecond
    IN  <<total_seconds \div 3600, (total_seconds % 3600) \div 60, total_seconds % 60>>

\* Credit with the window test written < 1.0
CreditStrict(last, current_time) ==
    IF last = None THEN 0
    ELSE IF current_time - last < ActiveWindow THEN current_time - last
    ELSE 0

\* Credit without the window test
CreditNoWindow(last, current_time) ==
    IF last = None THEN 0 ELSE current_time - last

\* handle_keyboard, lines 60-66: the time added by an update at current_time
Credit(last, current_time) ==
    IF last = None THEN 0
    ELSE IF current_time - last <= ActiveWindow THEN current_time - last
    ELSE 0

\* MoveAccepted with the debounce test written >= 0.1
MoveAcceptedAtBoundary(last, current_time) ==
    last = None \/ current_time - last >= MoveDebounce

\* handle_mouse_movement: the condition under which handle_keyboard is called
MoveAccepted(last, current_time) ==
    last = None \/ current_time - last > MoveDebounce

\* LimitReached written >
LimitReachedStrict(total, limit) == total > limit

\* check_time_limit: self.total_active_time >= self.time_limit
LimitReached(total, limit) == total >= limit

\* MayAlert written <= self.max_alerts
MayAlertOffByOne(count) == count <= max_alerts

\* check_time_limit: self.alert_count < self.max_alerts
MayAlert(count) == count < max_alerts

\* AlertsExhausted one alert early
AlertsExhaustedEarly(count) == count >= max_alerts - 1

\* check_time_limit: self.alert_count >= self.max_alerts
AlertsExhausted(count) == count >= max_alerts

\* check_log_update: current_time - self.last_log_time >= self.log_interval
LogDue(current_time, last_log) == current_time - last_log >= log_interval

\* RemainingExhausted written as less than a second left
RemainingExhaustedEarly(remaining) == remaining <= TicksPerSecond

\* draw_progress_bar: if remaining_time.total_seconds() <= 0: break
RemainingExhausted(remaining) == remaining <= 0

\* play_alert: paplay runs, or FileNotFoundError is caught and the bell is printed
AlertOutcomes == {"paplay", "bell"}

\* open(self.log_file, 'a') and f.write either succeed or raise OSError
LogOutcomes == {"written", "OSError"}

\* LockAfterExit of an acquire() whose release() an exception skips
LockKeptOnException(exc) == IF exc THEN "hook" ELSE "free"

\* __exit__ of `with self.activity_lock`: the lock is released, also on an exception
LockAfterExit(exc) == "free"

Log(label) == [logged EXCEPT ![label] = @ + 1]

\* ---------------------------------------------------------------------- Init

\* __init__ and start(): the monitor when the two threads begin
InitMonitor ==
    /\ variant \in Variants
    /\ now = 0
    /\ last_activity = None
    /\ is_active = FALSE
    /\ total_active_time = 0
    /\ running = TRUE
    /\ alert_count = 0
    /\ last_log_time = 0
    /\ activity_lock = "free"
    /\ pc_hook = "idle"
    /\ event = "none"
    /\ raised = FALSE
    /\ pc_draw = "while"
    /\ remaining_time = 0
    /\ filled_length = 0
    /\ elapsed = 0
    /\ activity_indicator = FALSE
    /\ alert_info = 0
    /\ alerts_played = 0
    /\ logged = [l \in LogLabels |->
                   IF variant = "escalating" /\ l = "Session Started" THEN 1 ELSE 0]
    /\ cancels = 0
    /\ last_accepted = None
    /\ gap_sum = 0

\* main has parsed args.time, constructed the monitor and started it
Init ==
    /\ time_str \in {TimeArg(s) : s \in 0..MaxSeconds}
    /\ pc_main = "run"
    /\ ~parse_time_limit(time_str).ValueError
    /\ time_limit = parse_time_limit(time_str).seconds * TicksPerSecond
    /\ InitMonitor

\* main is about to parse args.time; there is no monitor yet, its fields stand
\* at the values __init__ will give them
InitParse ==
    /\ time_str \in UNION {[1..n -> ArgChars] : n \in 0..MaxLen}
    /\ pc_main = "parse"
    /\ time_limit = None
    /\ InitMonitor

\* ---------------------------------------------------------------------- main

\* main, lines 192-198: parse_time_limit(args.time), then InputMonitor(time_limit)
\* and start(), or `except ValueError`: return 1
ParseArgs ==
    /\ pc_main = "parse"
    /\ LET parsed == parse_time_limit(time_str)
       IN  IF parsed.ValueError
             THEN /\ pc_main' = "exit_1"
                  /\ time_limit' = time_limit
             ELSE /\ pc_main' = "run"
                  /\ time_limit' = parsed.seconds * TicksPerSecond
    /\ UNCHANGED <<time_str, variant, now, session, hook, draw, effects, history>>

\* --------------------------------------------------------------- the clock

\* datetime.now() advances by one tick
Tick ==
    /\ now < MaxTime
    /\ now' = now + 1
    /\ UNCHANGED <<main, variant, time_limit, session, hook, draw, effects, history>>

\* datetime.now() advances by a whole log_interval in which no thread takes a step
Idle ==
    /\ now >= MaxTime
    /\ now < MaxTime + MaxIdlePeriods * log_interval
    /\ now' = now + log_interval
    /\ UNCHANGED <<main, variant, time_limit, session, hook, draw, effects, history>>

\* ----------------------------------------------------------- the hook thread

\* the hook manager still has an event to hand to a handler
Delivering == cancels < MaxCancels

\* KeyDown -> handle_keyboard, MouseAllButtonsDown -> handle_mouse_click:
\* the handler is entered and goes for the lock
DeliverKey ==
    /\ pc_hook = "idle"
    /\ Delivering
    /\ \E k \in {"Key", "MouseButton"} : event' = k
    /\ pc_hook' = "acquire"
    /\ UNCHANGED <<main, variant, time_limit, now, session, activity_lock, raised, draw,
                   effects, history>>

\* MouseMovement -> handle_mouse_movement: reads the clock and last_activity
\* without the lock, then calls handle_keyboard or returns
DeliverMove ==
    /\ pc_hook = "idle"
    /\ Delivering
    /\ event' = "MouseMove"
    /\ IF MoveAccepted(last_activity, now)
         THEN pc_hook' = "acquire"
         ELSE pc_hook' = "idle"
    /\ UNCHANGED <<main, variant, time_limit, now, session, activity_lock, raised, draw,
                   effects, history>>

\* handle_keyboard: with self.activity_lock (a non-reentrant threading.Lock)
Acquire ==
    /\ pc_hook = "acquire"
    /\ activity_lock = "free"
    /\ activity_lock' = "hook"
    /\ pc_hook' = "update"
    /\ event' = "none"
    /\ UNCHANGED <<main, variant, time_limit, now, session, raised, draw,
                   effects, history>>

\* handle_keyboard, lines 59-67: current_time, the credit, last_activity
Update ==
    /\ pc_hook = "update"
    /\ total_active_time' = total_active_time + Credit(last_activity, now)
    /\ last_activity' = now
    /\ gap_sum' = gap_sum +
          (IF last_accepted # None /\ now - last_accepted <= ActiveWindow
             THEN now - last_accepted ELSE 0)
    /\ last_accepted' = now
    /\ pc_hook' = "set_active"
    /\ UNCHANGED <<main, variant, time_limit, now, is_active, running, alert_count,
                   last_log_time, activity_lock, event, raised, draw, effects>>

\* handle_keyboard, line 68
SetActive ==
    /\ pc_hook = "set_active"
    /\ is_active' = TRUE
    /\ pc_hook' = "check_time_limit"
    /\ UNCHANGED <<main, variant, time_limit, now, last_activity, total_active_time, running,
                   alert_count, last_log_time, activity_lock, event, raised,
                   draw, effects, history>>

\* dailytimespend.py check_time_limit, lines 87-91: the alert, the count, the record
CheckTimeLimit ==
    /\ pc_hook = "check_time_limit"
    /\ variant = "escalating"
    /\ IF LimitReached(total_active_time, time_limit)
         THEN IF MayAlert(alert_count)
                THEN /\ \E a \in AlertOutcomes : alerts_played' = alerts_played + 1
                     /\ alert_count' = alert_count + 1
                     /\ \E o \in LogOutcomes :
                          IF o = "written"
                            THEN /\ logged' = Log("Time Limit Alert")
                                 /\ pc_hook' = "check_max"
                                 /\ raised' = FALSE
                            ELSE /\ logged' = logged
                                 /\ pc_hook' = "release"
                                 /\ raised' = TRUE
                ELSE /\ pc_hook' = "check_max"
                     /\ UNCHANGED <<alerts_played, alert_count, logged, raised>>
         ELSE /\ pc_hook' = "check_log_update"
              /\ UNCHANGED <<alerts_played, alert_count, logged, raised>>
    /\ UNCHANGED <<main, variant, time_limit, now, last_activity, is_active,
                   total_active_time, running, last_log_time, activity_lock, event,
                   draw, cancels, history>>

\* dailytimespend.py check_time_limit, lines 93-97: the end of the session
CheckMaxAlerts ==
    /\ pc_hook = "check_max"
    /\ IF AlertsExhausted(alert_count)
         THEN /\ running' = FALSE
              /\ \E o \in LogOutcomes :
                   IF o = "written"
                     THEN /\ logged' = Log("Session Ended")
                          /\ cancels' = cancels + 1
                          /\ pc_hook' = "check_log_update"
                          /\ raised' = FALSE
                     ELSE /\ logged' = logged
                          /\ cancels' = cancels
                          /\ pc_hook' = "release"
                          /\ raised' = TRUE
         ELSE /\ pc_hook' = "check_log_update"
              /\ UNCHANGED <<running, logged, cancels, raised>>
    /\ UNCHANGED <<main, variant, time_limit, now, last_activity, is_active,
                   total_active_time, alert_count, last_log_time, activity_lock, event, draw, alerts_played, history>>

\* dailytimespend.py check_log_update, lines 101-104
CheckLogUpdate ==
    /\ pc_hook = "check_log_update"
    /\ IF LogDue(now, last_log_time)
         THEN \E o \in LogOutcomes :
                IF o = "written"
                  THEN /\ logged' = Log("Regular Update")
                       /\ last_log_time' = now
                       /\ raised' = FALSE
                  ELSE /\ logged' = logged
                       /\ last_log_time' = last_log_time
                       /\ raised' = TRUE
         ELSE UNCHANGED <<logged, last_log_time, raised>>
    /\ pc_hook' = "release"
    /\ UNCHANGED <<main, variant, time_limit, now, last_activity, is_active,
                   total_active_time, running, alert_count, activity_lock, event, draw, alerts_played, cancels, history>>

\* dailytimespend1.py check_time_limit, lines 84-89
CheckTimeLimitImmediate ==
    /\ pc_hook = "check_time_limit"
    /\ variant = "immediate"
    /\ IF LimitReached(total_active_time, time_limit)
         THEN /\ running' = FALSE
              /\ \E a \in AlertOutcomes : alerts_played' = alerts_played + 1
              /\ \E o \in LogOutcomes :
                   IF o = "written"
                     THEN /\ logged' = Log("Active time")
                          /\ cancels' = cancels + 1
                          /\ raised' = FALSE
                     ELSE /\ logged' = logged
                          /\ cancels' = cancels
                          /\ raised' = TRUE
         ELSE UNCHANGED <<running, alerts_played, logged, cancels, raised>>
    /\ pc_hook' = "release"
    /\ UNCHANGED <<main, variant, time_limit, now, last_activity, is_active,
                   total_active_time, alert_count, last_log_time, activity_lock, event, draw, history>>

\* the end of the with block, reached normally or by an exception; the exception
\* then leaves the handler and ends the hook thread
Release ==
    /\ pc_hook = "release"
    /\ activity_lock' = LockAfterExit(raised)
    /\ pc_hook' = IF raised THEN "dead" ELSE "idle"
    /\ UNCHANGED <<main, variant, time_limit, now, session, event, raised, draw, effects,
                   history>>

\* ------------------------------------------------------- draw_progress_bar

\* while self.running
DrawWhile ==
    /\ pc_draw = "while"
    /\ pc_draw' = IF running THEN "remaining" ELSE "done"
    /\ UNCHANGED <<main, variant, time_limit, now, session, hook, remaining_time,
                   filled_length, elapsed, activity_indicator, alert_info, effects,
                   history>>

\* remaining_time = self.time_limit - self.total_active_time; break when <= 0
DrawRemaining ==
    /\ pc_draw = "remaining"
    /\ remaining_time' = time_limit - total_active_time
    /\ pc_draw' = IF RemainingExhausted(remaining_time') THEN "done" ELSE "progress"
    /\ UNCHANGED <<main, variant, time_limit, now, session, hook, filled_length, elapsed,
                   activity_indicator, alert_info, effects, history>>

\* progress = total_active_time / time_limit; filled_length = int(bar_length * progress)
DrawProgress ==
    /\ pc_draw = "progress"
    /\ filled_length' = (bar_length * total_active_time) \div time_limit
    /\ pc_draw' = "elapsed"
    /\ UNCHANGED <<main, variant, time_limit, now, session, hook, remaining_time, elapsed,
                   activity_indicator, alert_info, effects, history>>

\* elapsed = self.format_timedelta(self.total_active_time)
DrawElapsed ==
    /\ pc_draw = "elapsed"
    /\ elapsed' = total_active_time
    /\ pc_draw' = "indicator"
    /\ UNCHANGED <<main, variant, time_limit, now, session, hook, remaining_time,
                   filled_length, activity_indicator, alert_info, effects, history>>

\* activity_indicator = "*" if self.is_active else " "
DrawIndicator ==
    /\ pc_draw = "indicator"
    /\ activity_indicator' = is_active
    /\ pc_draw' = "alert_info"
    /\ UNCHANGED <<main, variant, time_limit, now, session, hook, remaining_time,
                   filled_length, elapsed, alert_info, effects, history>>

\* alert_info (dailytimespend.py only): the test and the value read alert_count
\* one after the other, and here at once
DrawAlertInfo ==
    /\ pc_draw = "alert_info"
    /\ alert_info' = IF variant = "escalating" THEN alert_count ELSE 0
    /\ pc_draw' = "write"
    /\ UNCHANGED <<main, variant, time_limit, now, session, hook, remaining_time,
                   filled_length, elapsed, activity_indicator, effects, history>>

\* sys.stdout.write of the line, self.is_active = False, time.sleep(0.1); the
\* locals are dead from here on.  The length of the sleep is left open: the next
\* poll may come at any later step.
DrawWrite ==
    /\ pc_draw = "write"
    /\ is_active' = FALSE
    /\ pc_draw' = "while"
    /\ remaining_time' = 0
    /\ filled_length' = 0
    /\ elapsed' = 0
    /\ activity_indicator' = FALSE
    /\ alert_info' = 0
    /\ UNCHANGED <<main, variant, time_limit, now, last_activity, total_active_time, running,
                   alert_count, last_log_time, hook, effects, history>>

\* ------------------------------------------------------------ specification

Next ==
    \/ Tick
    \/ DeliverKey
    \/ DeliverMove
    \/ Acquire
    \/ Update
    \/ SetActive
    \/ CheckTimeLimit
    \/ CheckMaxAlerts
    \/ CheckLogUpdate
    \/ CheckTimeLimitImmediate
    \/ Release
    \/ DrawWhile
    \/ DrawRemaining
    \/ DrawProgress
    \/ DrawElapsed
    \/ DrawIndicator
    \/ DrawAlertInfo
    \/ DrawWrite

\* the two threads and the clock
Spec == Init /\ [][Next]_vars

\* the hook thread and the clock, over a longer time: draw_progress_bar writes
\* is_active only, which no handler reads
NextHook ==
    \/ Tick
    \/ Idle
    \/ DeliverKey
    \/ DeliverMove
    \/ Acquire
    \/ Update
    \/ SetActive
    \/ CheckTimeLimit
    \/ CheckMaxAlerts
    \/ CheckLogUpdate
    \/ CheckTimeLimitImmediate
    \/ Release

SpecHook == Init /\ [][NextHook]_vars

\* main up to the start of the monitor
NextParse == ParseArgs

SpecParse == InitParse /\ [][NextParse]_vars

\* -------------------------------------------------------------------- claims

\* the handler positions inside `with self.activity_lock`
LockedPcs == {"update", "set_active", "check_time_limit", "check_max",
              "check_log_update", "release"}

\* the hook thread is between two handlers, or has ended
AtUpdateBoundary == pc_hook \in {"idle", "dead"}

\* C1: once running is false, no step changes total_active_time or alert_count.
C1_FrozenAfterStop ==
    [][~running => /\ total_active_time' = total_active_time
                   /\ alert_count' = alert_count]_vars

\* C2: escalating policy: an update that finds the limit reached with
\* alert_count < max_alerts plays one alert and adds one to alert_count; between
\* updates running is false exactly when alert_count has reached max_alerts; no
\* more than max_alerts alerts are played, and all of them once running is false.
C2_FiveAlertsThenStop ==
    /\ [][(/\ variant = "escalating"
           /\ pc_hook = "check_time_limit" /\ pc_hook' # pc_hook
           /\ total_active_time >= time_limit /\ alert_count < max_alerts)
          => /\ alerts_played' = alerts_played + 1
             /\ alert_count' = alert_count + 1]_vars
    /\ [](variant = "escalating" =>
            /\ alerts_played <= max_alerts
            /\ (AtUpdateBoundary => (~running <=> alert_count = max_alerts))
            /\ (AtUpdateBoundary /\ ~running => alerts_played = max_alerts))

\* C3: immediate policy: the update that finds the limit reached sets running to
\* false, and over the whole run at most one alert is played and at most one log
\* record written, exactly one of each once an update that stopped the session
\* has returned.
C3_OneAlertOneRecord ==
    /\ [][(/\ variant = "immediate"
           /\ pc_hook = "check_time_limit" /\ pc_hook' # pc_hook
           /\ total_active_time >= time_limit)
          => ~running']_vars
    /\ [](variant = "immediate" =>
            /\ alerts_played <= 1
            /\ logged["Active time"] <= 1
            /\ (pc_hook = "idle" /\ ~running =>
                  alerts_played = 1 /\ logged["Active time"] = 1))

\* C4: alert_count stays within 0 .. max_alerts and no step decreases it.
C4_AlertCountBounded ==
    /\ [](alert_count >= 0 /\ alert_count <= max_alerts)
    /\ [][alert_count' >= alert_count]_vars

C4_Witness ==
    alert_count = max_alerts /\ cancels = MaxCancels /\ pc_hook = "idle"

\* C5: total_active_time never decreases and equals the sum of the gaps of at
\* most one second between consecutive accepted events; a dropped MouseMove
\* is no accepted event and moves no gap.
C5_TotalIsSumOfGaps ==
    /\ [](total_active_time = gap_sum)
    /\ [][total_active_time' >= total_active_time]_vars

C5_Witness ==
    /\ pc_hook = "idle" /\ event = "MouseMove"
    /\ total_active_time > 0
    /\ last_activity - total_active_time > ActiveWindow

\* C6: one update at time t adds nothing when last_activity is unset, adds
\* t - last_activity when that gap is at most one second, adds nothing when it
\* is longer, and sets last_activity to t; the update then sets is_active.
C6_SingleUpdate ==
    /\ [][(pc_hook = "update" /\ pc_hook' # pc_hook) =>
           /\ last_activity' = now
           /\ total_active_time' - total_active_time =
                (CASE last_activity = None -> 0
                   [] last_activity # None /\ now - last_activity <= TicksPerSecond
                        -> now - last_activity
                   [] OTHER -> 0)]_vars
    /\ [][(pc_hook = "set_active" /\ pc_hook' # pc_hook) => is_active']_vars

C6_Witness ==
    /\ pc_hook = "set_active"
    /\ last_activity = now
    /\ total_active_time = TicksPerSecond
    /\ now = TicksPerSecond

\* a MouseMove is handed to handle_mouse_movement in this step (a second drop in
\* a row changes nothing at all and is no step)
MoveDelivered ==
    /\ pc_hook = "idle"
    /\ event' = "MouseMove"
    /\ (event # "MouseMove" \/ pc_hook' # "idle")

\* C7: a MouseMove at most 100 ms after last_activity is dropped: the session,
\* the lock, the alerts, the log and the cancel requests are as before and no
\* handler runs; any other MouseMove, and every Key and MouseButton event,
\* enters handle_keyboard.
C7_MouseMoveDebounce ==
    /\ [][MoveDelivered =>
            IF last_activity # None /\ now - last_activity <= 1
              THEN /\ pc_hook' = "idle"
                   /\ UNCHANGED <<session, activity_lock, effects>>
              ELSE pc_hook' = "acquire"]_vars
    /\ [][(pc_hook = "idle" /\ event' \in {"Key", "MouseButton"})
            => pc_hook' = "acquire"]_vars

C7_Witness ==
    /\ pc_hook = "idle" /\ event = "MouseMove"
    /\ now - last_activity = 1

\* C8: every step that reads or writes a field of the session is taken by a
\* thread that holds activity_lock: the steps of draw_progress_bar, the test of
\* handle_mouse_movement, and the body of handle_keyboard.
C8_AccessUnderLock ==
    /\ [][pc_draw' # pc_draw => activity_lock = "draw"]_vars
    /\ [][MoveDelivered => activity_lock = "hook"]_vars
    /\ [](pc_hook \in LockedPcs => activity_lock = "hook")

\* C9: the values of one progress line come from one state of the session: the
\* elapsed time and the remaining time add up to time_limit, and the marker is
\* not shown while last_activity is unset.
C9_LineFromOneState ==
    pc_draw = "write" =>
        /\ elapsed + remaining_time = time_limit
        /\ (activity_indicator => last_activity # None)

\* C10: a handler that wants activity_lock can take it at once, and the lock is
\* held exactly while the hook thread is inside the with block: no path asks
\* for it again while holding it, and none leaves holding it.
C10_NoDeadlock ==
    /\ (pc_hook = "acquire" => ENABLED Acquire)
    /\ (activity_lock = "hook" <=> pc_hook \in LockedPcs)
    /\ (activity_lock # "hook" => activity_lock = "free")

C10_Witness ==
    /\ pc_hook = "acquire"
    /\ pc_draw = "write"
    /\ alert_count > 0

\* C11: while draw_progress_bar loops, an is_active set by an accepted event is
\* not cleared before a line has shown it: the step that writes a line and clears
\* is_active clears only a flag which the line it has just written shows.
C11_ActiveShownBeforeCleared ==
    [][(pc_draw = "write" /\ pc_draw' # pc_draw /\ is_active)
          => activity_indicator]_vars

\* the length of Python's `c * n` for a one-character string c
StrTimes(n) == IF n > 0 THEN n ELSE 0

\* draw_progress_bar: the number of cells of
\* bar = '=' * filled_length + '-' * (bar_length - filled_length)
BarCells(filled) == StrTimes(filled) + StrTimes(bar_length - filled)

\* C12: every line drawn has a progress within [0,1] and a bar of exactly
\* bar_length cells, of which between 0 and bar_length are filled.
C12_BarWithinBounds ==
    pc_draw \in {"elapsed", "indicator", "alert_info", "write"} =>
        /\ 0 <= filled_length /\ filled_length <= bar_length
        /\ BarCells(filled_length) = bar_length

\* log_activity: remaining = max(timedelta(), self.time_limit - self.total_active_time)
LogRemaining(total, limit) == IF limit - total > 0 THEN limit - total ELSE 0

\* C13: the remaining time of a report is never negative and is zero when the
\* report is produced with total_active_time >= time_limit: the remaining time
\* log_activity computes in this state, and the one on the line that
\* draw_progress_bar is about to write.
C13_RemainingClamped ==
    /\ LogRemaining(total_active_time, time_limit) >= 0
    /\ (total_active_time >= time_limit =>
          format_timedelta(LogRemaining(total_active_time, time_limit)) = <<0, 0, 0>>)
    /\ (pc_draw = "write" =>
          /\ remaining_time >= 0
          /\ (total_active_time >= time_limit =>
                format_timedelta(remaining_time) = <<0, 0, 0>>))

\* the session has stopped or has used up its time limit
Stopped == ~running \/ total_active_time >= time_limit

\* draw_progress_bar takes a step
DrawStep == pc_draw' # pc_draw

\* any step of draw_progress_bar
DrawNext ==
    \/ DrawWhile
    \/ DrawRemaining
    \/ DrawProgress
    \/ DrawElapsed
    \/ DrawIndicator
    \/ DrawAlertInfo
    \/ DrawWrite

\* the number of steps draw_progress_bar has left, at most, once Stopped holds
DrawRank ==
    CASE pc_draw = "progress" -> 7
      [] pc_draw = "elapsed" -> 6
      [] pc_draw = "indicator" -> 5
      [] pc_draw = "alert_info" -> 4
      [] pc_draw = "write" -> 3
      [] pc_draw = "while" -> 2
      [] pc_draw = "remaining" -> 1
      [] OTHER -> 0

\* a poll of draw_progress_bar: the while test leaves the loop exactly when
\* running is false, the remaining-time test exactly when total_active_time has
\* reached time_limit; the thread never waits for anything, and the loop once
\* left is not entered again
DrawPolls ==
    /\ [][(DrawStep /\ pc_draw = "while") =>
            pc_draw' = IF running THEN "remaining" ELSE "done"]_vars
    /\ [][(DrawStep /\ pc_draw = "remaining") =>
            pc_draw' = IF total_active_time >= time_limit THEN "done"
                       ELSE "progress"]_vars
    /\ [][pc_draw = "done" => pc_draw' = "done"]_vars
    /\ [](pc_draw # "done" => ENABLED DrawNext)

\* C14 as stated: draw_progress_bar polls as in DrawPolls, and writes no line
\* once running is false or total_active_time >= time_limit.
C14_NoLineOnceStopped ==
    /\ DrawPolls
    /\ [][(DrawStep /\ pc_draw = "write") => ~Stopped]_vars

\* C14, amended: draw_progress_bar polls as in DrawPolls, and once running is
\* false or total_active_time >= time_limit every step it takes brings it closer
\* to the end of the loop: it finishes the line it had begun, if any, and leaves
\* the loop at the poll that follows, within DrawRank steps.
C14_RendererTerminates ==
    /\ DrawPolls
    /\ [][(DrawStep /\ Stopped) => DrawRank' < DrawRank]_vars

C14_Witness ==
    /\ pc_draw = "write"
    /\ ~running
    /\ remaining_time > 0

\* C15: a failure of play_alert or of a log write is swallowed: no exception
\* leaves an update, the lock is released when the update ends, and the session
\* is as if the write had succeeded: between updates alert_count = max_alerts
\* comes with running false and a cancel requested.
C15_FailureSwallowed ==
    /\ ~raised
    /\ pc_hook # "dead"
    /\ (AtUpdateBoundary => activity_lock # "hook")
    /\ (variant = "escalating" /\ AtUpdateBoundary /\ alert_count = max_alerts
          => ~running /\ cancels >= 1)

\* <N><unit>: one or more digits followed by the unit letter
IsComponent(str, unit) ==
    /\ Len(str) >= 2
    /\ str[Len(str)] = unit
    /\ \A i \in 1..(Len(str) - 1) : IsDigit(str[i])

\* an optional component, and the number it stands for
IsPart(str, unit) == str = <<>> \/ IsComponent(str, unit)
PartValue(str) == IF str = <<>> THEN 0 ELSE IntOf(SubSeq(str, 1, Len(str) - 1))

\* the ways to cut str into an hours, a minutes and a seconds part
Cuts(str) ==
    {c \in (0..Len(str)) \X (0..Len(str)) :
        /\ c[1] <= c[2]
        /\ IsPart(SubSeq(str, 1, c[1]), "h")
        /\ IsPart(SubSeq(str, c[1] + 1, c[2]), "m")
        /\ IsPart(SubSeq(str, c[2] + 1, Len(str)), "s")}

\* str is of the form <N>h<N>m<N>s, each component optional
Conforms(str) == Cuts(str) # {}

\* 3600 * h + 60 * m + s of a conforming string
Duration(str) ==
    LET c == CHOOSE c \in Cuts(str) : TRUE
    IN  3600 * PartValue(SubSeq(str, 1, c[1]))
          + 60 * PartValue(SubSeq(str, c[1] + 1, c[2]))
          + PartValue(SubSeq(str, c[2] + 1, Len(str)))

\* the longest prefix of str that conforms; the empty prefix always does
LongestConformingPrefix(str) ==
    LET k == CHOOSE k \in 0..Len(str) :
                 /\ Conforms(SubSeq(str, 1, k))
                 /\ \A j \in (k + 1)..Len(str) : ~Conforms(SubSeq(str, 1, j))
    IN  SubSeq(str, 1, k)

\* C16: parse_time_limit never raises ValueError; a string of the form
\* <N>h<N>m<N>s, components optional, gives 3600 * h + 60 * m + s seconds
\* ("1h10m1s" 4201, "10m" 600, "" 0), and any other string gives the duration of
\* its longest prefix of that form.
C16_ParseTimeLimit ==
    /\ pc_main # "exit_1"
    /\ (pc_main = "run" =>
          /\ time_limit = TicksPerSecond * Duration(LongestConformingPrefix(time_str))
          /\ (Conforms(time_str) => time_limit = TicksPerSecond * Duration(time_str)))
    /\ parse_time_limit(<<"1", "h", "1", "0", "m", "1", "s">>).seconds = 4201
    /\ parse_time_limit(<<"1", "0", "m">>).seconds = 600
    /\ parse_time_limit(<<>>).seconds = 0

C16_Witness ==
    /\ pc_main = "run"
    /\ time_str = <<"1", "m", "1", "h">>
    /\ time_limit = 60 * TicksPerSecond

\* the hook thread takes the step of check_log_update
LogCheckStep == pc_hook = "check_log_update" /\ pc_hook' # pc_hook

\* C17: escalating variant: every update, also one after running has become
\* false, comes to check_log_update; there a "Regular Update" record is written
\* exactly when log_interval has passed from last_log_time to the time of the
\* update, which then becomes last_log_time; no other step writes such a record
\* or changes last_log_time.
C17_RegularUpdate ==
    /\ [][LogCheckStep =>
            IF last_activity - last_log_time >= log_interval
              THEN /\ logged'["Regular Update"] = logged["Regular Update"] + 1
                   /\ last_log_time' = last_activity
              ELSE /\ logged'["Regular Update"] = logged["Regular Update"]
                   /\ last_log_time' = last_log_time]_vars
    /\ [][(\/ last_log_time' # last_log_time
           \/ logged'["Regular Update"] # logged["Regular Update"])
          => LogCheckStep]_vars
    /\ [][(/\ variant = "escalating"
           /\ pc_hook \in {"check_time_limit", "check_max"}
           /\ pc_hook' # pc_hook)
          => pc_hook' \in {"check_max", "check_log_update"}]_vars

\* C18: escalating variant: the "Session Ended" record is written and
\* hook_manager.cancel() is called at most once in a session, and exactly once
\* when an update that has stopped the session has returned; a later update with
\* alert_count = max_alerts does neither again.
C18_TerminationOnce ==
    variant = "escalating" =>
        /\ logged["Session Ended"] <= 1
        /\ cancels <= 1
        /\ (pc_hook = "idle" /\ ~running =>
              logged["Session Ended"] = 1 /\ cancels = 1)

\* C19: escalating variant: between two updates, none of which has failed,
\* running is false exactly when alert_count = max_alerts, and alert_count > 0
\* only with total_active_time >= time_limit; running becomes false in no step
\* but that of an update with alert_count = max_alerts, so it stays true while
\* no event arrives.
C19_RunningIffExhausted ==
    /\ [](variant = "escalating" /\ pc_hook = "idle" =>
            /\ (~running <=> alert_count = max_alerts)
            /\ (alert_count > 0 => total_active_time >= time_limit))
    /\ [][(variant = "escalating" /\ running /\ ~running') =>
            pc_hook = "check_max" /\ alert_count = max_alerts]_vars

C19_Witness ==
    /\ variant = "escalating"
    /\ pc_hook = "idle"
    /\ alert_count > 0 /\ alert_count < max_alerts
    /\ running
    /\ now - last_activity >= 2 * log_interval

\* C20: with time_limit = 0 the first accepted event, which has added no time,
\* meets the limit: its check plays an alert, the first of the escalating
\* variant, and in the immediate variant sets running to false; and
\* draw_progress_bar leaves its loop at the first remaining-time test: it never
\* comes to the division by time_limit nor to a line.
C20_ZeroLimit ==
    /\ [][(/\ time_limit = 0
           /\ pc_hook = "check_time_limit" /\ pc_hook' # pc_hook
           /\ alerts_played = 0)
          => /\ total_active_time = 0
             /\ alerts_played' = 1
             /\ (variant = "immediate" => ~running')
             /\ (variant = "escalating" => alert_count' = 1 /\ running')]_vars
    /\ [](time_limit = 0 => pc_draw \in {"while", "remaining", "done"})
    /\ [][(time_limit = 0 /\ pc_draw = "remaining" /\ DrawStep)
            => pc_draw' = "done"]_vars

C20_Witness ==
    /\ time_limit = 0
    /\ time_str = <<>>
    /\ variant = "escalating"
    /\ alerts_played = 1
    /\ running
    /\ pc_draw = "done"

====
